---- MODULE Spec2Model ----
(***************************************************************************)
(* Ticket submission and response classification of the two chat front     *)
(* ends in frontend/src/components/AIAgentFrontend.tsx: the component      *)
(* AIAgentFrontend (sendMessage, clearChat, exportChat, sanitizeResponse)  *)
(* and the component App (handleSend).                                     *)
(*                                                                         *)
(* JavaScript strings are sequences of one-character strings, so that      *)
(* trimming, the sanitizer's regular expressions and JSON serialisation    *)
(* are computed character by character.  The JavaScript value undefined    *)
(* is the one-element sequence <<"undefined">>, and null <<"null">>: no    *)
(* sequence of characters equals either.                                   *)
(***************************************************************************)
EXTENDS Integers, Sequences, FiniteSets, TLC

\* ------------------------------------------------------------------------
\* JavaScript values and strings
\* ------------------------------------------------------------------------

Undefined == <<"undefined">>

Null == <<"null">>

\* A JavaScript string: a sequence of characters.
IsString(v) == v # Undefined /\ v # Null

\* ToBoolean on a string, undefined or null: only a non-empty string is truthy.
Truthy(v) == IsString(v) /\ v # <<>>

\* a || b
Or(a, b) == IF Truthy(a) THEN a ELSE b

\* The characters matched by \s and removed by String.prototype.trim.
WhiteSpace == {" ", "\t", "\n", "\r", "\f"}

Digits == {"0", "1", "2", "3", "4", "5", "6", "7", "8", "9"}

\* What ^ follows under the m flag.
LineTerminators == {"\n", "\r"}

\* The class [\.\)\-] of the sanitizer's first regular expression.
MarkerChars == {".", ")", "-"}

IsWhite(c) == c \in WhiteSpace

\* The least index j >= i of s that holds no character of class cs
\* (Len(s) + 1 when every character from i on is of the class): where a
\* greedy cs* that starts at i ends.
SkipClass(s, i, cs) ==
    CHOOSE j \in i..(Len(s) + 1) :
        /\ \A k \in i..(j - 1) : s[k] \in cs
        /\ (j = Len(s) + 1 \/ s[j] \notin cs)

\* String.prototype.trim
trim(s) ==
    LET a == SkipClass(s, 1, WhiteSpace)
        b == IF a > Len(s) THEN 0
             ELSE CHOOSE j \in a..Len(s) :
                      /\ ~IsWhite(s[j])
                      /\ \A k \in (j + 1)..Len(s) : IsWhite(s[k])
    IN  IF a > Len(s) THEN <<>> ELSE SubSeq(s, a, b)

\* ^ under the m flag: at the start of the text or right after a line
\* terminator of the text.
AtLineStart(s, i) == i = 1 \/ s[i - 1] \in LineTerminators

\* /^\s*\d+[\.\)\-]\s+/m tried at index i: the index after the match, or 0
\* when there is no match at i.  The three classes are disjoint, so the
\* greedy match is the only one.
MarkerMatchEnd(s, i) ==
    LET a == SkipClass(s, i, WhiteSpace)
        b == SkipClass(s, a, Digits)
    IN  IF /\ AtLineStart(s, i)
           /\ b > a
           /\ b + 1 <= Len(s)
           /\ s[b] \in MarkerChars
           /\ IsWhite(s[b + 1])
        THEN SkipClass(s, b + 1, WhiteSpace)
        ELSE 0

\* The least index of the set at, 0 when it is empty: where the next match
\* of a global regular expression is found.
FirstOf(at) == IF at = {} THEN 0 ELSE CHOOSE j \in at : \A k \in at : j <= k

HasMarkerMatch(s, i) == MarkerMatchEnd(s, i) # 0

\* text.replace(/^\s*\d+[\.\)\-]\s+/gm, '') from index i on: the text up to
\* the next match is kept, the match is dropped, and the search resumes
\* where the match ended.
RECURSIVE StripMarkersFrom(_, _)
StripMarkersFrom(s, i) ==
    LET j == FirstOf({k \in i..Len(s) : HasMarkerMatch(s, k)})
    IN  IF j = 0 THEN SubSeq(s, i, Len(s))
        ELSE SubSeq(s, i, j - 1) \o StripMarkersFrom(s, MarkerMatchEnd(s, j))

StripMarkers(s) == StripMarkersFrom(s, 1)

\* /\n{3,}/ matches at i: three line feeds start there.
HasBlankRun(s, i) == i + 2 <= Len(s) /\ \A k \in i..(i + 2) : s[k] = "\n"

\* cleaned.replace(/\n{3,}/g, '\n\n') from index i on: the next run of three
\* or more line feeds becomes two.
RECURSIVE CollapseFrom(_, _)
CollapseFrom(s, i) ==
    LET j == FirstOf({k \in i..Len(s) : HasBlankRun(s, k)})
    IN  IF j = 0 THEN SubSeq(s, i, Len(s))
        ELSE SubSeq(s, i, j - 1) \o <<"\n", "\n">>
                 \o CollapseFrom(s, SkipClass(s, j, {"\n"}))

CollapseBlankLines(s) == CollapseFrom(s, 1)

\* sanitizeResponse: a falsy text is returned as it is.
sanitizeResponse(text) ==
    IF ~Truthy(text) THEN text
    ELSE trim(CollapseBlankLines(StripMarkers(text)))

\* ------------------------------------------------------------------------
\* JSON.stringify and number formatting
\* ------------------------------------------------------------------------

DigitChar(d) == <<"0", "1", "2", "3", "4", "5", "6", "7", "8", "9">>[d + 1]

\* String(n) of a natural number: its decimal digits.
RECURSIVE ToStr(_)
ToStr(n) == IF n < 10 THEN <<DigitChar(n)>> ELSE ToStr(n \div 10) \o <<DigitChar(n % 10)>>

\* The escape JSON.stringify writes for one character of a string.
EscapeChar(c) ==
    CASE c = "\"" -> <<"\\", "\"">>
      [] c = "\\" -> <<"\\", "\\">>
      [] c = "\n" -> <<"\\", "n">>
      [] c = "\r" -> <<"\\", "r">>
      [] c = "\t" -> <<"\\", "t">>
      [] c = "\f" -> <<"\\", "f">>
      [] OTHER -> <<c>>

IsEscaped(s, i) == EscapeChar(s[i]) # <<s[i]>>

\* The text of s from index i on with every character escaped that needs it.
RECURSIVE EscapeFrom(_, _)
EscapeFrom(s, i) ==
    LET j == FirstOf({k \in i..Len(s) : IsEscaped(s, k)})
    IN  IF j = 0 THEN SubSeq(s, i, Len(s))
        ELSE SubSeq(s, i, j - 1) \o EscapeChar(s[j]) \o EscapeFrom(s, j + 1)

\* JSON.stringify of a string.
JsonString(s) == <<"\"">> \o EscapeFrom(s, 1) \o <<"\"">>

\* "key":json
JsonMember(key, json) == JsonString(key) \o <<":">> \o json

\* The members of an object joined by commas.
RECURSIVE JoinComma(_)
JoinComma(ms) ==
    IF ms = <<>> THEN <<>>
    ELSE IF Len(ms) = 1 THEN ms[1]
    ELSE ms[1] \o <<",">> \o JoinComma(Tail(ms))

\* JSON.stringify of an object given as a sequence of [key, value] whose
\* values are strings or undefined: a property whose value is undefined is
\* left out, the others keep their order.
JsonObject(props) ==
    LET kept == SelectSeq(props, LAMBDA p : p.json # Undefined)
    IN  <<"{">> \o JoinComma([k \in 1..Len(kept) |-> JsonMember(kept[k].key, kept[k].json)]) \o <<"}">>

\* A string-valued property: undefined stays undefined.
StringProp(key, v) == [key |-> key, json |-> IF v = Undefined THEN Undefined ELSE JsonString(v)]

\* the key 'status' of a backend payload
Key_status ==
    <<"s","t","a","t","u","s">>

\* the key 'final_response' of a backend payload
Key_final_response ==
    <<"f","i","n","a","l","_","r","e","s","p","o","n","s","e">>

\* the key 'proposed_answer' of a backend payload
Key_proposed_answer ==
    <<"p","r","o","p","o","s","e","d","_","a","n","s","w","e","r">>

\* the key 'answer' of a backend payload
Key_answer ==
    <<"a","n","s","w","e","r">>

\* the key 'reason' of a backend payload
Key_reason ==
    <<"r","e","a","s","o","n">>

\* the key 'orientation' of a backend payload
Key_orientation ==
    <<"o","r","i","e","n","t","a","t","i","o","n">>

\* the key 'target_department' of a backend payload
Key_target_department ==
    <<"t","a","r","g","e","t","_","d","e","p","a","r","t","m","e","n","t">>

\* the key 'target' of a backend payload
Key_target ==
    <<"t","a","r","g","e","t">>

\* the key 'message' of a backend payload
Key_message ==
    <<"m","e","s","s","a","g","e">>

\* the status value 'success'
Status_success ==
    <<"s","u","c","c","e","s","s">>

\* the status value 'escalated'
Status_escalated ==
    <<"e","s","c","a","l","a","t","e","d">>

\* the status value 'rejected'
Status_rejected ==
    <<"r","e","j","e","c","t","e","d">>

\* the status value 'error'
Status_error ==
    <<"e","r","r","o","r">>

\* the message of the TypeError a failed fetch rejects with
FailedToFetch ==
    <<"F","a","i","l","e","d"," ","t","o"," ","f","e","t","c","h">>

\* the message of the SyntaxError response.json() rejects with on a body that is no JSON
UnexpectedEnd ==
    <<"U","n","e","x","p","e","c","t","e","d"," ","e","n","d"," ","o","f"," ","J","S","O","N",
      " ","i","n","p","u","t">>

\* The message of the TypeError that reading a property of null throws (lines
\* 61, 69 and 318), as SpiderMonkey words it for the variable data.
NullReadText ==
    <<"d","a","t","a"," ","i","s"," ","n","u","l","l">>

\* ------------------------------------------------------------------------
\* Backend payloads
\* ------------------------------------------------------------------------

\* data.orientation when the payload has none.
NoOrientation == [present |-> FALSE, target_department |-> Undefined, target |-> Undefined]

\* A decoded payload object.  A property the body does not hold is
\* undefined; orientation is an object of its own or absent.
Payload(status, final_response, proposed_answer, answer, reason, orientation, message) ==
    [status |-> status, final_response |-> final_response,
     proposed_answer |-> proposed_answer, answer |-> answer, reason |-> reason,
     orientation |-> orientation, message |-> message]

\* What response.json() resolves with, or axios puts in response.data: an
\* object, or null (the body "null" is JSON too).
JsonObjectData(p) == [type |-> "object", v |-> p]

JsonNullData == [type |-> "null"]

\* data.orientation?.target_department and data.orientation?.target
OrientationField(p, f) == IF p.orientation.present THEN p.orientation[f] ELSE Undefined

\* JSON.stringify(data.orientation)
StringifyOrientation(o) ==
    IF ~o.present THEN Undefined
    ELSE JsonObject(<<StringProp(Key_target_department, o.target_department),
                      StringProp(Key_target, o.target)>>)

\* JSON.stringify(data) of a payload object, its properties in the order of
\* the body.
JSONstringify(p) ==
    JsonObject(<<StringProp(Key_status, p.status),
                 StringProp(Key_final_response, p.final_response),
                 StringProp(Key_proposed_answer, p.proposed_answer),
                 StringProp(Key_answer, p.answer),
                 StringProp(Key_reason, p.reason),
                 [key |-> Key_orientation, json |-> StringifyOrientation(p.orientation)],
                 StringProp(Key_message, p.message)>>)

\* line 61, the text shown when a 202 carries no message
ColdStartText ==
    <<"L","e"," ","b","a","c","k","e","n","d"," ","d","é","m","a","r","r","e",","," ","r","é",
      "e","s","s","a","y","e","z"," ","d","a","n","s"," ","q","u","e","l","q","u","e","s"," ",
      "i","n","s","t","a","n","t","s",".">>

\* line 72
HumanAgentText ==
    <<"a","g","e","n","t"," ","h","u","m","a","i","n">>

\* line 74
OrientedPrefix ==
    <<"O","r","i","e","n","t","é"," ","v","e","r","s",":"," ">>

\* line 74
DotSpace ==
    <<"."," ">>

\* line 76
RejectedText ==
    <<"R","e","q","u","ê","t","e"," ","r","e","j","e","t","é","e"," ","p","a","r"," ","l","e",
      " ","b","a","c","k","e","n","d",".">>

\* line 90
HttpErrorPrefix ==
    <<"E","r","r","e","u","r"," ","H","T","T","P",":"," ">>

\* line 90
SpaceDashSpace ==
    <<" ","-"," ">>

\* line 96
ErrorPrefix ==
    <<"E","r","r","e","u","r",":"," ">>

\* line 96
ErrorSuffix ==
    <<"."," ","V","é","r","i","f","i","e","z"," ","q","u","e"," ","v","o","t","r","e"," ","b",
      "a","c","k","e","n","d"," ","e","s","t"," ","d","é","m","a","r","r","é"," ","e","t"," ",
      "q","u","e"," ","l","'","U","R","L"," ","A","P","I"," ","e","s","t"," ","c","o","r","r",
      "e","c","t","e",".">>

\* ------------------------------------------------------------------------
\* AIAgentFrontend.sendMessage: from a response to the entry appended
\* ------------------------------------------------------------------------

\* response.ok
IsOk(st) == 200 <= st /\ st <= 299

\* Line 35 to 39.
UserMessage(text, t) == [id |-> t, role |-> "user", content |-> text, timestamp |-> t]

\* Lines 58 to 63 and 81 to 86: Date.now() + 1 is the id.
AssistantMessage(content, t) ==
    [id |-> t + 1, role |-> "assistant", content |-> content, timestamp |-> t]

\* Lines 93 to 99: the entry of the catch block, for the caught error's message.
ErrorMessage(message, t) ==
    [id |-> t + 1, role |-> "assistant",
     content |-> sanitizeResponse(ErrorPrefix \o message \o ErrorSuffix),
     timestamp |-> t, isError |-> TRUE]

\* Line 61, before the sanitizer.
ColdStartContent(p) == Or(p.message, ColdStartText)

\* Lines 68 to 79: the text of a 2xx response that is not a 202.
ResponseText(p) ==
    IF p.status = Status_success
    THEN Or(Or(Or(p.final_response, p.proposed_answer), p.answer), JSONstringify(p))
    ELSE IF p.status = Status_escalated
    THEN LET dept == Or(Or(Or(OrientationField(p, "target_department"),
                              OrientationField(p, "target")), p.reason), HumanAgentText)
             msg == Or(Or(p.final_response, p.proposed_answer), <<>>)
         IN  OrientedPrefix \o dept \o DotSpace \o msg
    ELSE IF p.status = Status_rejected
    THEN Or(Or(p.reason, p.final_response), RejectedText)
    ELSE JSONstringify(p)

\* Line 90: the message of the Error thrown for a response that is not ok.
HttpErrorText(st, body) == HttpErrorPrefix \o ToStr(st) \o SpaceDashSpace \o body

\* Lines 56 to 87 once response.json() has resolved with the object p: what
\* the try block appends.
TryEntries(st, p, t) ==
    IF st = 202
    THEN <<AssistantMessage(sanitizeResponse(ColdStartContent(p)), t)>>
    ELSE <<AssistantMessage(sanitizeResponse(ResponseText(p)), t)>>

\* A catch block whose entry lacks isError.
CatchEntriesUnmarked(message, t) ==
    <<AssistantMessage(sanitizeResponse(ErrorPrefix \o message \o ErrorSuffix), t)>>

\* A catch block that appends nothing.
CatchEntriesNone(message, t) == <<>>

\* Lines 92 to 100: what the catch block appends for a caught error.
CatchEntries(message, t) == <<ErrorMessage(message, t)>>

\* setLoading(false) as the last statement of the try block instead of a
\* finally block: a failed exchange leaves the flag set.
LoadingAfterTryOnly(failed) == failed

\* Lines 101 to 103: the busy flag after the finally block, whether the try
\* block failed or not.
LoadingAfter(failed) == FALSE

\* line 289
GreetingText ==
    <<"B","o","n","j","o","u","r"," ","!"," ","J","e"," ","s","u","i","s"," ","l","'","a","s",
      "s","i","s","t","a","n","t"," ","i","n","t","e","l","l","i","g","e","n","t"," ","d","e",
      " ","D","o","x","a","."," ","C","o","m","m","e","n","t"," ","p","u","i","s","-","j","e",
      " ","v","o","u","s"," ","a","i","d","e","r"," ","a","u","j","o","u","r","d","'","h","u",
      "i"," ","?">>

\* line 323
EscalatedPrefix ==
    <<"V","o","t","r","e"," ","d","e","m","a","n","d","e"," ","a"," ","é","t","é"," ","t","r",
      "a","n","s","m","i","s","e"," ","à"," ","u","n"," ","a","g","e","n","t"," ","h","u","m",
      "a","i","n"," ","(">>

\* line 323
SupportText ==
    <<"S","u","p","p","o","r","t">>

\* line 323
EscalatedReason ==
    <<")","."," ","R","a","i","s","o","n"," ",":"," ">>

\* line 325
RejectedPrefix ==
    <<"D","é","s","o","l","é",","," ","v","o","t","r","e"," ","d","e","m","a","n","d","e"," ",
      "a"," ","é","t","é"," ","r","e","j","e","t","é","e","."," ","R","a","i","s","o","n"," ",
      ":"," ">>

\* line 338
TechnicalErrorText ==
    <<"D","é","s","o","l","é",","," ","u","n","e"," ","e","r","r","e","u","r"," ","t","e","c",
      "h","n","i","q","u","e"," ","e","s","t"," ","s","u","r","v","e","n","u","e","."," ","V",
      "e","u","i","l","l","e","z"," ","v","é","r","i","f","i","e","r"," ","q","u","e"," ","l",
      "e"," ","s","e","r","v","e","u","r"," ","b","a","c","k","e","n","d"," ","e","s","t"," ",
      "e","n"," ","c","o","u","r","s"," ","d","'","e","x","é","c","u","t","i","o","n",".">>

\* ------------------------------------------------------------------------
\* App.handleSend: from response.data to the entry appended
\* ------------------------------------------------------------------------

\* `${v}` in a template literal: undefined is written "undefined".
TemplateStr(v) == IF v = Undefined THEN <<"u", "n", "d", "e", "f", "i", "n", "e", "d">> ELSE v

\* What axios puts in response.data for a body that is no JSON: the text.
TextData(s) == [type |-> "string", v |-> s]

\* data.status: a string has no property status.
DataStatus(data) == IF data.type = "object" THEN data.v.status ELSE Undefined

\* Lines 317 to 326: aiResponseContent, '' unless one of the three branches
\* assigns it.
AiResponseContent(data) ==
    LET p == data.v
        status == DataStatus(data)
    IN  IF status = Status_success THEN p.final_response
        ELSE IF status = Status_escalated
        THEN Or(p.final_response,
                EscalatedPrefix \o Or(OrientationField(p, "target_department"), SupportText)
                    \o EscalatedReason \o TemplateStr(p.reason))
        ELSE IF status = Status_rejected
        THEN Or(p.final_response, RejectedPrefix \o TemplateStr(p.reason))
        ELSE <<>>

\* Line 306.
AppUserMessage(text) == [role |-> "user", content |-> text]

\* Lines 328 to 333.
AiMessage(data) ==
    [role |-> "ai", content |-> AiResponseContent(data), status |-> DataStatus(data),
     details |-> data]

\* Lines 336 to 340: the entry of the catch block.
AiErrorMessage == [role |-> "ai", content |-> TechnicalErrorText, status |-> Status_error]

\* Lines 316 to 333 for response.data that is not null: what the try block
\* appends.
AppTryEntries(data) == <<AiMessage(data)>>

\* Lines 334 to 340: what the catch block appends.
AppCatchEntries == <<AiErrorMessage>>

\* Lines 341 to 343: the busy flag after the finally block.
IsLoadingAfter(failed) == FALSE

\* ------------------------------------------------------------------------
\* The inputs of the environment
\* ------------------------------------------------------------------------

\* The largest value Date.now() returns.
MaxTime == 1

\* What Date.now() may return when its last reading was last: the clock does
\* not go back, and two readings may fall in the same millisecond.
Readings(last) == last..MaxTime

\* A submission is accepted only while the log holds fewer entries.
MaxMsgs == 3

\* What the user types into the input field: nothing, white space only, and
\* a ticket that trimming would change.
Inputs == {<<>>, <<" ">>, <<" ", "a">>}

\* The HTTP statuses the backend answers with.
HttpStatuses == {200, 202, 500}

\* The payloads the backend answers with: one for each branch on
\* data.status, and one with a status no branch knows and a message.
PSuccess == Payload(Status_success, <<"O", "K">>, Undefined, Undefined, Undefined, NoOrientation, Undefined)

PEscalated ==
    Payload(Status_escalated, Undefined, Undefined, Undefined, <<"c">>,
            [present |-> TRUE, target_department |-> <<"B">>, target |-> Undefined], Undefined)

PRejected == Payload(Status_rejected, Undefined, Undefined, Undefined, <<"s", "p", "a", "m">>, NoOrientation, Undefined)

PErrorStatus ==
    Payload(Status_error, Undefined, Undefined, Undefined, Undefined, NoOrientation,
            <<"1", ".", " ", "u", "p">>)

Payloads == {PSuccess, PEscalated, PRejected, PErrorStatus}

\* What a body decodes to.
Datas == {JsonObjectData(p) : p \in Payloads} \cup {JsonNullData}

\* The text of the body of a response that is not ok, and of one that is no JSON.
BodyTexts == {<<"d", "o", "w", "n">>}

\* ------------------------------------------------------------------------
\* State
\* ------------------------------------------------------------------------

VARIABLES
    mounted,    \* which of the two components is rendered
    messages,   \* useState: the log
    input,      \* useState: the text of the input field
    loading,    \* useState of AIAgentFrontend: the busy flag
    isLoading,  \* useState of App: the busy flag
    calls,      \* the invocations of sendMessage / handleSend suspended at an await
    now,        \* the last reading of the clock (Date.now(), new Date())
    download,   \* the file the step hands to the browser, if any
    lastEvent   \* the event the step handled

vars == <<mounted, messages, input, loading, isLoading, calls, now, download, lastEvent>>

NoDownload == [made |-> FALSE]

\* The busy flag of the mounted component.
Busy == IF mounted = "App" THEN isLoading ELSE loading

\* JSON.stringify({ ticket: text }): the body of the POST.
RequestBody(text) == JsonObject(<<StringProp(<<"t", "i", "c", "k", "e", "t">>, text)>>)

\* The request with the ticket trimmed before it is sent.
PostRequestTrimmed(text) == [method |-> "POST", body |-> RequestBody(trim(text))]

\* The request of lines 46 to 53, and of lines 312 to 314.
PostRequest(text) == [method |-> "POST", body |-> RequestBody(text)]

RemoveAt(s, i) == SubSeq(s, 1, i - 1) \o SubSeq(s, i + 1, Len(s))

Init ==
    /\ mounted \in {"AIAgentFrontend", "App"}
    /\ messages = IF mounted = "App" THEN <<[role |-> "ai", content |-> GreetingText]>> ELSE <<>>
    /\ input = <<>>
    /\ loading = FALSE
    /\ isLoading = FALSE
    /\ calls = <<>>
    /\ now = 0
    /\ download = NoDownload
    /\ lastEvent = "none"

\* ------------------------------------------------------------------------
\* AIAgentFrontend
\* ------------------------------------------------------------------------

\* Line 32 without the test of the busy flag.
RejectsBlankOnly(text, busy) == trim(text) = <<>>

\* Line 32 without the call of trim.
RejectsNoTrim(text, busy) == text = <<>> \/ busy

\* Line 32: the submit event is dropped.
Rejects(text, busy) == trim(text) = <<>> \/ busy

\* Line 41 left out: the user entry is not appended before the request.
WithUserMessageLater(log, m) == log

\* Line 41 with the entry put in front of the log.
WithUserMessagePrepended(log, m) == <<m>> \o log

\* Line 41: the log after the user entry is appended.
WithUserMessage(log, m) == Append(log, m)

\* Line 256: the change handler of the input field.  The handler has no
\* guard of its own: that the field is rendered disabled while loading
\* (line 259) keeps a user from typing, not an event from being delivered.
SetInput(v) ==
    /\ mounted = "AIAgentFrontend"
    /\ input' = v
    /\ download' = NoDownload
    /\ lastEvent' = "other"
    /\ UNCHANGED <<mounted, messages, loading, isLoading, calls, now>>

\* Lines 30 to 53: a submit event of the form, up to the await of fetch.
\* The event is handled whenever it is delivered; line 32 is the handler's
\* only guard.
SendMessage(t) ==
    /\ mounted = "AIAgentFrontend"
    /\ download' = NoDownload
    /\ lastEvent' = "submit"
    /\ IF Rejects(input, loading)
       THEN UNCHANGED <<messages, input, loading, calls, now>>
       ELSE /\ Len(messages) < MaxMsgs
            /\ messages' = WithUserMessage(messages, UserMessage(input, t))
            /\ input' = <<>>
            /\ loading' = TRUE
            /\ calls' = Append(calls, [pc |-> "fetch", request |-> PostRequest(input), status |-> 0])
            /\ now' = t
    /\ UNCHANGED <<mounted, isLoading>>

\* The handler with call i leaves its try block at instant t: the entries it
\* appended, and the finally block.
Finish(i, entries, failed, t) ==
    /\ messages' = messages \o entries
    /\ loading' = LoadingAfter(failed)
    /\ calls' = RemoveAt(calls, i)
    /\ now' = t
    /\ download' = NoDownload
    /\ lastEvent' = "other"
    /\ UNCHANGED <<mounted, input, isLoading>>

\* Line 46 with a retry: a 202 makes the handler fetch again.
FetchResolveRetry(i, st) ==
    /\ calls[i].pc = "fetch"
    /\ calls' = [calls EXCEPT ![i].pc = IF st = 202 THEN "fetch"
                                        ELSE IF IsOk(st) THEN "json" ELSE "text",
                              ![i].status = st]
    /\ download' = NoDownload
    /\ lastEvent' = "other"
    /\ UNCHANGED <<mounted, messages, input, loading, isLoading, now>>

\* Line 46: fetch resolves with a response; lines 56, 65 and 88 choose the
\* body reader awaited next.
FetchResolve(i, st) ==
    /\ calls[i].pc = "fetch"
    /\ calls' = [calls EXCEPT ![i].pc = IF st = 202 \/ IsOk(st) THEN "json" ELSE "text",
                              ![i].status = st]
    /\ download' = NoDownload
    /\ lastEvent' = "other"
    /\ UNCHANGED <<mounted, messages, input, loading, isLoading, now>>

\* Line 46: fetch rejects (no response).
FetchReject(i, t) ==
    /\ calls[i].pc = "fetch"
    /\ Finish(i, CatchEntries(FailedToFetch, t), TRUE, t)

\* Lines 57 and 66: response.json() resolves with data.  Line 61 or 69 reads
\* a property of data, which throws a TypeError when data is null.
JsonResolve(i, data, t) ==
    /\ calls[i].pc = "json"
    /\ IF data.type = "null"
       THEN Finish(i, CatchEntries(NullReadText, t), TRUE, t)
       ELSE Finish(i, TryEntries(calls[i].status, data.v, t), FALSE, t)

\* Lines 57 and 66: response.json() rejects, the body is no JSON.
JsonReject(i, t) ==
    /\ calls[i].pc = "json"
    /\ Finish(i, CatchEntries(UnexpectedEnd, t), TRUE, t)

\* Lines 89 and 90: response.text() resolves and the Error is thrown.
TextResolve(i, body, t) ==
    /\ calls[i].pc = "text"
    /\ Finish(i, CatchEntries(HttpErrorText(calls[i].status, body), t), TRUE, t)

\* Line 89: response.text() rejects.
TextReject(i, t) ==
    /\ calls[i].pc = "text"
    /\ Finish(i, CatchEntries(FailedToFetch, t), TRUE, t)

\* Lines 106 to 110 without the test of what confirm() returns.
ClearChatNoConfirm(ok) ==
    /\ mounted = "AIAgentFrontend"
    /\ messages' = <<>>
    /\ download' = NoDownload
    /\ lastEvent' = IF ok THEN "clear:confirmed" ELSE "clear:declined"
    /\ UNCHANGED <<mounted, input, loading, isLoading, calls, now>>

\* Lines 106 to 110 with a test of the busy flag: a clear does nothing
\* while a request is outstanding.
ClearChatGuarded(ok) ==
    /\ mounted = "AIAgentFrontend"
    /\ messages' = IF ok /\ ~loading THEN <<>> ELSE messages
    /\ download' = NoDownload
    /\ lastEvent' = IF ok THEN "clear:confirmed" ELSE "clear:declined"
    /\ UNCHANGED <<mounted, input, loading, isLoading, calls, now>>

\* Lines 106 to 110: confirm() returns ok.
ClearChat(ok) ==
    /\ mounted = "AIAgentFrontend"
    /\ messages' = IF ok THEN <<>> ELSE messages
    /\ download' = NoDownload
    /\ lastEvent' = IF ok THEN "clear:confirmed" ELSE "clear:declined"
    /\ UNCHANGED <<mounted, input, loading, isLoading, calls, now>>

\* JSON.stringify of one entry of the log: its properties in the order they
\* were written, a property that is not there left out.
EntryJson(m) ==
    SelectSeq(<<[key |-> "id", has |-> "id" \in DOMAIN m],
                [key |-> "role", has |-> "role" \in DOMAIN m],
                [key |-> "content", has |-> "content" \in DOMAIN m],
                [key |-> "timestamp", has |-> "timestamp" \in DOMAIN m],
                [key |-> "isError", has |-> "isError" \in DOMAIN m]>>,
              LAMBDA f : f.has)

\* Line 113: JSON.stringify(messages, null, 2), as the sequence of the
\* entries' objects, each the sequence of its members.
ChatData(log) ==
    [k \in 1..Len(log) |->
        LET fs == EntryJson(log[k])
        IN  [j \in 1..Len(fs) |-> [key |-> fs[j].key, value |-> log[k][fs[j].key]]]]

\* Lines 112 to 121: the log is serialised and handed to the browser as a
\* file (its name, which holds the export instant, is left out).
ExportChat ==
    /\ mounted = "AIAgentFrontend"
    /\ download' = [made |-> TRUE, chatData |-> ChatData(messages)]
    /\ lastEvent' = "export"
    /\ UNCHANGED <<mounted, messages, input, loading, isLoading, calls, now>>

\* ------------------------------------------------------------------------
\* App
\* ------------------------------------------------------------------------

\* Line 304: the call is dropped.
AppRejects(text, busy) == trim(text) = <<>> \/ busy

\* Line 307 left out: the user entry is not appended.
AppWithUserMessageLater(log, m) == log

\* Line 307: the log after the user entry is appended.
AppWithUserMessage(log, m) == Append(log, m)

\* Line 424: the change handler of the input field (rendered disabled while
\* isLoading, line 427; the handler has no guard of its own).
AppSetInput(v) ==
    /\ mounted = "App"
    /\ input' = v
    /\ download' = NoDownload
    /\ lastEvent' = "other"
    /\ UNCHANGED <<mounted, messages, loading, isLoading, calls, now>>

\* Lines 303 to 314: Enter in the input field or a click on the button, up
\* to the await of axios.post.
HandleSend ==
    /\ mounted = "App"
    /\ download' = NoDownload
    /\ lastEvent' = "submit"
    /\ IF AppRejects(input, isLoading)
       THEN UNCHANGED <<messages, input, isLoading, calls>>
       ELSE /\ Len(messages) < MaxMsgs
            /\ messages' = AppWithUserMessage(messages, AppUserMessage(input))
            /\ input' = <<>>
            /\ isLoading' = TRUE
            /\ calls' = Append(calls, [pc |-> "post", request |-> PostRequest(input), status |-> 0])
    /\ UNCHANGED <<mounted, loading, now>>

\* The handler with call i leaves its try block: the entries it appended,
\* and the finally block.
AppFinish(i, entries, failed) ==
    /\ messages' = messages \o entries
    /\ isLoading' = IsLoadingAfter(failed)
    /\ calls' = RemoveAt(calls, i)
    /\ download' = NoDownload
    /\ lastEvent' = "other"
    /\ UNCHANGED <<mounted, input, loading, now>>

\* Line 312: axios.post resolves, which it does for a 2xx status only, with
\* the decoded body in response.data.  The handler never reads
\* response.status.
PostResolve(i, st, data) ==
    /\ calls[i].pc = "post"
    /\ IsOk(st)
    /\ IF data.type = "null"
       THEN AppFinish(i, AppCatchEntries, TRUE)
       ELSE AppFinish(i, AppTryEntries(data), FALSE)

\* Line 312: axios.post rejects: no response, or a status that is not 2xx.
PostReject(i) ==
    /\ calls[i].pc = "post"
    /\ AppFinish(i, AppCatchEntries, TRUE)

\* ------------------------------------------------------------------------
\* Specification
\* ------------------------------------------------------------------------

Next ==
    \/ \E v \in Inputs : SetInput(v)
    \/ \E t \in Readings(now) : SendMessage(t)
    \/ \E i \in 1..Len(calls), st \in HttpStatuses : FetchResolve(i, st)
    \/ \E i \in 1..Len(calls), t \in Readings(now) : FetchReject(i, t)
    \/ \E i \in 1..Len(calls), data \in Datas, t \in Readings(now) : JsonResolve(i, data, t)
    \/ \E i \in 1..Len(calls), t \in Readings(now) : JsonReject(i, t)
    \/ \E i \in 1..Len(calls), body \in BodyTexts, t \in Readings(now) : TextResolve(i, body, t)
    \/ \E i \in 1..Len(calls), t \in Readings(now) : TextReject(i, t)
    \/ \E ok \in BOOLEAN : ClearChat(ok)
    \/ ExportChat
    \/ \E v \in Inputs : AppSetInput(v)
    \/ HandleSend
    \/ \E i \in 1..Len(calls), st \in HttpStatuses, data \in Datas \cup {TextData(b) : b \in BodyTexts} :
          PostResolve(i, st, data)
    \/ \E i \in 1..Len(calls) : PostReject(i)

Spec == Init /\ [][Next]_vars

\* ------------------------------------------------------------------------
\* One exchange, over the payloads of the HTTP contract
\* ------------------------------------------------------------------------

\* The values of a text property of the payload: absent, empty, and a text.
Texts(s) == {Undefined, <<>>, s}

\* data.orientation: absent, an empty object, with both properties, and
\* with target only.
Orientations ==
    {NoOrientation,
     [present |-> TRUE, target_department |-> Undefined, target |-> Undefined],
     [present |-> TRUE, target_department |-> <<"D">>, target |-> <<"T">>],
     [present |-> TRUE, target_department |-> Undefined, target |-> <<"T">>]}

\* data.status: the three statuses the branches know, one they do not, and
\* none.
PayloadStatuses == {Status_success, Status_escalated, Status_rejected, Status_error, Undefined}

\* 'starting'
StartingText == <<"s", "t", "a", "r", "t", "i", "n", "g">>

\* '1. 2. f': a marker that follows a marker.
NestedMarkersText == <<"1", ".", " ", "2", ".", " ", "f">>

\* '1. foo\n2) bar\n3 - baz': the three markers the comment of line 24 names.
ThreeMarkersText ==
    <<"1", ".", " ", "f", "o", "o", "\n", "2", ")", " ", "b", "a", "r", "\n",
      "3", " ", "-", " ", "b", "a", "z">>

\* The payloads of one exchange: every combination of the properties lines
\* 61 to 78 and 318 to 325 read, and two whose message holds list markers.
ResponsePayloads ==
    {Payload(s, f, pa, a, r, o, msg) :
        s \in PayloadStatuses, f \in Texts(<<"F">>) \cup {<<" ">>}, pa \in {Undefined, <<"P">>},
        a \in {Undefined, <<"A">>}, r \in {Undefined, <<"R">>}, o \in Orientations,
        msg \in {Undefined, StartingText}}
    \cup {Payload(Undefined, Undefined, Undefined, Undefined, Undefined, NoOrientation, msg) :
            msg \in {NestedMarkersText, ThreeMarkersText}}

\* What the body of a response decodes to.
ResponseDatas == {JsonObjectData(p) : p \in ResponsePayloads} \cup {JsonNullData}

\* No exchange has concluded yet: the log holds no assistant entry but
\* App's greeting.
NoAnswerYet ==
    \A k \in 1..Len(messages) :
        (messages[k].role \in {"assistant", "ai"}) => (mounted = "App" /\ k = 1)

\* The first exchange of a session whose response has a status axios and
\* fetch take as a success, with every payload of ResponsePayloads.
ResponsesNext ==
    \/ \E v \in Inputs : SetInput(v)
    \/ \E t \in Readings(now) : NoAnswerYet /\ SendMessage(t)
    \/ \E i \in 1..Len(calls), st \in {200, 202} : FetchResolve(i, st)
    \/ \E i \in 1..Len(calls), data \in ResponseDatas, t \in Readings(now) : JsonResolve(i, data, t)
    \/ \E i \in 1..Len(calls), t \in Readings(now) : JsonReject(i, t)
    \/ \E v \in Inputs : AppSetInput(v)
    \/ NoAnswerYet /\ HandleSend
    \/ \E i \in 1..Len(calls), st \in {200, 202},
          data \in ResponseDatas \cup {TextData(b) : b \in BodyTexts} : PostResolve(i, st, data)

SpecResponses == Init /\ [][ResponsesNext]_vars

\* ------------------------------------------------------------------------
\* Properties
\* ------------------------------------------------------------------------

IsPrefix(a, b) == Len(a) <= Len(b) /\ SubSeq(b, 1, Len(a)) = a

Last(s) == s[Len(s)]

IsUserEntry(m) == m.role = "user"

IsAssistantEntry(m) == m.role \in {"assistant", "ai"}

\* The error marker of an entry: isError of AIAgentFrontend, status 'error'
\* of App.
HasErrorMarker(m) ==
    \/ "isError" \in DOMAIN m /\ m.isError
    \/ "status" \in DOMAIN m /\ m.status = Status_error

\* The number of assistant entries of a log.
NumAssistant(log) == Cardinality({k \in 1..Len(log) : IsAssistantEntry(log[k])})

\* The step handles a submit event that finds the text blank or the busy
\* flag set.
BlockedSubmit == lastEvent' = "submit" /\ (trim(input) = <<>> \/ Busy)

\* The step handles a submit event that finds a ticket and the flag idle.
AcceptedSubmit == lastEvent' = "submit" /\ trim(input) # <<>> /\ ~Busy

\* The step concludes the exchange of a handler.
Concludes == Len(calls') < Len(calls)

\* C1: single flight.  At most one handler is suspended on the network at
\* any time, and a submit event that arrives while the busy flag is set
\* starts no request and appends nothing.
C1_SingleFlight ==
    [][/\ Len(calls') <= 1
       /\ (lastEvent' = "submit" /\ Busy) => (calls' = calls /\ messages' = messages)]_vars

\* A submit event with a ticket in the field was dropped while a request was
\* outstanding.
C1_Witness == lastEvent = "submit" /\ Busy /\ Len(calls) = 1 /\ trim(input) # <<>>

\* C2: every step that concludes an exchange, whatever the path (202, 2xx,
\* not ok, undecodable body, no response), leaves the busy flag idle, so the
\* next submission is accepted.
C2_BusyCleared == [][Concludes => (~Busy' /\ calls' = <<>>)]_vars

\* An exchange ended in the catch block and the flag is idle.
C2_Witness ==
    /\ messages # <<>> /\ HasErrorMarker(Last(messages))
    /\ ~Busy /\ calls = <<>> /\ lastEvent = "other"

\* C3: an assistant entry is appended exactly when an exchange concludes, and
\* then exactly one, at the end of the log.
C3_OneEntryPerExchange ==
    [][/\ Concludes => /\ Len(messages') = Len(messages) + 1
                       /\ IsPrefix(messages, messages')
                       /\ IsAssistantEntry(Last(messages'))
       /\ ~Concludes => NumAssistant(messages') <= NumAssistant(messages)]_vars

\* Two exchanges have concluded, the second one with a failure.
C3_Witness ==
    /\ mounted = "AIAgentFrontend" /\ NumAssistant(messages) = 2 /\ calls = <<>>
    /\ HasErrorMarker(Last(messages)) /\ ~HasErrorMarker(messages[Len(messages) - 2])

\* C4 as stated: every assistant entry of the log (App's greeting aside)
\* stands right after a user entry, its question.
C4_AnswerFollowsQuestion ==
    \A k \in 1..Len(messages) :
        (IsAssistantEntry(messages[k]) /\ ~(mounted = "App" /\ k = 1))
            => (k > 1 /\ IsUserEntry(messages[k - 1]))

\* C4, amended: the step that issues a request appends the user entry, and
\* the step that concludes the exchange appends its entry right after that
\* user entry, unless a confirmed clear has emptied the log meanwhile: then
\* the entry is appended to the empty log.
C4_QuestionFirst ==
    [][/\ Len(calls') > Len(calls) =>
             /\ Len(messages') = Len(messages) + 1
             /\ IsPrefix(messages, messages')
             /\ IsUserEntry(Last(messages'))
       /\ (Concludes /\ messages # <<>>) =>
             /\ IsUserEntry(Last(messages))
             /\ Len(messages') = Len(messages) + 1
             /\ IsPrefix(messages, messages')
             /\ IsAssistantEntry(Last(messages'))]_vars

\* A question and, after it, its answer.
C4_Witness ==
    /\ Len(messages) >= 2 /\ ~Busy
    /\ IsUserEntry(messages[Len(messages) - 1]) /\ IsAssistantEntry(Last(messages))

\* C5: a submit event that finds the text empty after trimming, or the busy
\* flag set, changes nothing: no request, and the log, the input text and
\* the busy flag are as before.
C5_RejectedSubmitIsNoOp ==
    [][BlockedSubmit => UNCHANGED <<messages, input, loading, isLoading, calls, now>>]_vars

\* A submit event was dropped for a text of white space only.
C5_Witness == lastEvent = "submit" /\ input = <<" ">> /\ ~Busy /\ calls = <<>>

\* C6: in every log the ids increase strictly from each entry to the next.
C6_IdsStrictlyIncreasing ==
    \A k \in 1..(Len(messages) - 1) :
        ("id" \in DOMAIN messages[k] /\ "id" \in DOMAIN messages[k + 1])
            => messages[k].id < messages[k + 1].id

\* The entry of a failed exchange: of the catch block.  In AIAgentFrontend
\* its text starts with 'Erreur: ' (line 96); in App it is the entry without
\* details (lines 336 to 340; the greeting aside).
IsFailureEntry(k) ==
    IF mounted = "App"
    THEN k > 1 /\ "details" \notin DOMAIN messages[k]
    ELSE IsPrefix(ErrorPrefix, messages[k].content)

IsPassedThroughError(k) ==
    /\ "details" \in DOMAIN messages[k]
    /\ DataStatus(messages[k].details) = Status_error

C8_NoRetry ==
    [][(calls' # calls /\ calls' # <<>> /\ Last(calls').pc \in {"fetch", "post"})
          => /\ AcceptedSubmit
             /\ calls' = Append(calls, Last(calls'))
             /\ Last(calls').request.method = "POST"]_vars

\* A 202 has been answered with the cold-start text and nothing is
\* outstanding.
C8_Witness ==
    /\ messages # <<>> /\ Last(messages).content = ColdStartText
    /\ calls = <<>> /\ ~Busy

\* C9: but for a confirmed clear, every step leaves the log it found as a
\* prefix of the log it leaves.
C9_AppendOnly == [][lastEvent' = "clear:confirmed" \/ IsPrefix(messages, messages')]_vars

\* A clear was declined on a log of three entries.
C9_Witness == Len(messages) >= 3 /\ lastEvent = "clear:declined"

\* The serialised log holds every entry of log, in order, with every
\* property and its value.
IsSnapshotOf(chatData, log) ==
    /\ Len(chatData) = Len(log)
    /\ \A k \in 1..Len(log) :
          /\ {chatData[k][j].key : j \in 1..Len(chatData[k])} = DOMAIN log[k]
          /\ \A j \in 1..Len(chatData[k]) :
                chatData[k][j].value = log[k][chatData[k][j].key]

\* C10: a confirmed clear empties the log and a declined one leaves it as it
\* is; an export hands out the whole log in order and leaves it as it is,
\* so that the export after a confirmed clear is the empty sequence.
C10_ClearAndExport ==
    [][/\ lastEvent' = "clear:confirmed" => messages' = <<>>
       /\ lastEvent' = "clear:declined" => messages' = messages
       /\ lastEvent' = "export" =>
             /\ messages' = messages
             /\ download'.made
             /\ IsSnapshotOf(download'.chatData, messages)
             /\ (lastEvent = "clear:confirmed" => download'.chatData = <<>>)]_vars

\* The log was cleared while a request was outstanding, and then exported.
C10_Witness ==
    /\ lastEvent = "export" /\ download.made /\ download.chatData = <<>>
    /\ Busy /\ messages = <<>>

\* The step is a handler reading the decoded object p of a response with
\* status st and running to its end.
HandlesPayload(st, p) ==
    \E i \in 1..Len(calls) :
        \/ /\ calls[i].pc = "json" /\ calls[i].status = st
           /\ \E t \in Readings(now) : JsonResolve(i, JsonObjectData(p), t)
        \/ PostResolve(i, st, JsonObjectData(p))

\* The step is a handler ending in its catch block with no payload in hand:
\* no response, or a body that did not decode.
HandlesTransportFailure ==
    \E i \in 1..Len(calls) :
        \/ \E t \in Readings(now) : FetchReject(i, t) \/ JsonReject(i, t) \/ TextReject(i, t)
        \/ PostReject(i)

\* The payload an entry retains, in raw or (App, line 332) in details.
RetainsPayload(m, p) ==
    \/ "raw" \in DOMAIN m /\ m.raw \in {p, JsonObjectData(p)}
    \/ "details" \in DOMAIN m /\ m.details \in {p, JsonObjectData(p)}

\* C11: the entry appended for a 202 or 2xx response retains the decoded
\* payload, and the entry of a transport failure retains none.
C11_RawRetained ==
    [][/\ \A st \in {200, 202}, p \in Payloads :
             HandlesPayload(st, p) => RetainsPayload(Last(messages'), p)
       /\ HandlesTransportFailure =>
             (DOMAIN Last(messages')) \cap {"raw", "details"} = {}]_vars

\* C12: sanitizing a sanitized text changes nothing, and a text that is
\* undefined or empty is returned as it is.  The content of every assistant
\* entry of AIAgentFrontend is a sanitized text (lines 61, 84 and 96).
C12_SanitizerIdempotent ==
    /\ sanitizeResponse(<<>>) = <<>>
    /\ sanitizeResponse(Undefined) = Undefined
    /\ \A k \in 1..Len(messages) :
          messages[k].role = "assistant"
              => sanitizeResponse(messages[k].content) = messages[k].content

\* 'foo\nbar\nbaz'
FooBarBazText == <<"f", "o", "o", "\n", "b", "a", "r", "\n", "b", "a", "z">>

\* C13: the sanitizer strips each of the three marker forms: the cold-start
\* entry for the message '1. foo\n2) bar\n3 - baz' reads 'foo\nbar\nbaz'.
C13_ThreeMarkersStripped ==
    [][\A p \in ResponsePayloads :
          (/\ mounted = "AIAgentFrontend"
           /\ p.message = ThreeMarkersText
           /\ HandlesPayload(202, p))
              => Last(messages').content = FooBarBazText]_vars

\* C14: whatever its payload, a 202 response ends in the cold-start entry:
\* its content is the message of the payload when there is one and the fixed
\* text otherwise (sanitized), and it has no error marker.
C14_ColdStart ==
    [][\A p \in ResponsePayloads :
          HandlesPayload(202, p)
              => /\ Last(messages').content = sanitizeResponse(Or(p.message, ColdStartText))
                 /\ ~HasErrorMarker(Last(messages'))]_vars

\* The text is the content of the entry, sanitized or as it is.
IsContent(m, text) == m.content \in {text, sanitizeResponse(text)}

\* C15: for a 2xx response other than 202 whose payload has status
\* 'success', the content is the first non-empty of final_response,
\* proposed_answer and answer, or else the serialised payload, and it is
\* never empty or undefined.
C15_SuccessContent ==
    [][\A p \in ResponsePayloads :
          (p.status = Status_success /\ HandlesPayload(200, p))
              => /\ IsContent(Last(messages'),
                              Or(Or(Or(p.final_response, p.proposed_answer), p.answer),
                                 JSONstringify(p)))
                 /\ Truthy(Last(messages').content)]_vars

\* C16: for a 2xx response other than 202 whose payload has no status or one
\* that is not success, escalated or rejected, the handler appends one entry
\* without error marker whose content is the serialised payload.
C16_UnknownStatus ==
    [][\A p \in ResponsePayloads :
          (/\ p.status \notin {Status_success, Status_escalated, Status_rejected}
           /\ HandlesPayload(200, p))
              => /\ Len(messages') = Len(messages) + 1
                 /\ ~HasErrorMarker(Last(messages'))
                 /\ IsContent(Last(messages'), JSONstringify(p))]_vars

\* sub occurs in s.
Contains(s, sub) ==
    \E i \in 1..(Len(s) - Len(sub) + 1) : SubSeq(s, i, i + Len(sub) - 1) = sub

IsSuffix(a, b) == Len(a) <= Len(b) /\ SubSeq(b, Len(b) - Len(a) + 1, Len(b)) = a

\* C17: for a 2xx response other than 202 whose payload has status
\* 'escalated', the entry has no error marker (with or without an
\* orientation object), its content names the department (the first
\* non-empty of orientation.target_department, orientation.target and
\* reason, or else the placeholder) and ends with final_response, or else
\* proposed_answer, when there is one.
C17_EscalatedContent ==
    [][\A p \in ResponsePayloads :
          (p.status = Status_escalated /\ HandlesPayload(200, p))
              => LET dept == Or(Or(Or(OrientationField(p, "target_department"),
                                      OrientationField(p, "target")), p.reason),
                                HumanAgentText)
                     msg == Or(Or(p.final_response, p.proposed_answer), <<>>)
                     c == Last(messages').content
                 IN  /\ ~HasErrorMarker(Last(messages'))
                     /\ IsString(c) /\ Contains(c, dept) /\ IsSuffix(trim(msg), c)]_vars

\* The step is a handler that has a 2xx response whose body is no JSON.
HandlesUndecodableBody ==
    \E i \in 1..Len(calls) :
        \/ /\ calls[i].pc = "json" /\ IsOk(calls[i].status)
           /\ \E t \in Readings(now) : JsonReject(i, t)
        \/ \E st \in {200, 202}, b \in BodyTexts : PostResolve(i, st, TextData(b))

\* C18: a 2xx response whose body does not decode ends in one entry with
\* the error marker, and the busy flag is idle.
C18_UndecodableIsError ==
    [][HandlesUndecodableBody
          => /\ Len(messages') = Len(messages) + 1
             /\ HasErrorMarker(Last(messages'))
             /\ ~Busy']_vars

\* The log without App's greeting.
Exchanges == IF mounted = "App" THEN Tail(messages) ELSE messages

\* s is a sequence of pairs, each a user entry and then an assistant entry.
IsPairs(s) ==
    /\ Len(s) % 2 = 0
    /\ \A k \in 1..Len(s) :
          IF k % 2 = 1 THEN IsUserEntry(s[k]) ELSE IsAssistantEntry(s[k])

\* The busy flag is set exactly when one request is outstanding; idle, the
\* log is a sequence of pairs, and in flight it is such a sequence and then
\* one user entry.
PairedLog ==
    /\ Busy <=> Len(calls) = 1
    /\ ~Busy => IsPairs(Exchanges)
    /\ Busy => /\ Exchanges # <<>>
               /\ IsPairs(SubSeq(Exchanges, 1, Len(Exchanges) - 1))
               /\ IsUserEntry(Last(Exchanges))

\* C19: the log is paired initially, and every step but a confirmed clear
\* keeps it paired; the busy flag is set exactly when one request is
\* outstanding, in every state.
C19_PairedLog ==
    /\ PairedLog
    /\ [][/\ (PairedLog /\ lastEvent' # "clear:confirmed") => PairedLog'
          /\ Busy' <=> Len(calls') = 1]_vars

\* A second request is outstanding after a first exchange has concluded.
C19_Witness ==
    /\ PairedLog /\ Busy /\ Len(Exchanges) = 3 /\ lastEvent = "submit"

\* C20: a confirmed clear empties the log whether or not a request is
\* outstanding and leaves the busy flag and the request as they are; the
\* step that concludes the exchange on the emptied log leaves a log of one
\* assistant entry and the flag idle.
C20_ClearInFlight ==
    [][/\ lastEvent' = "clear:confirmed"
             => /\ messages' = <<>>
                /\ UNCHANGED <<loading, isLoading, calls, input>>
       /\ (Concludes /\ messages = <<>>)
             => /\ Len(messages') = 1
                /\ IsAssistantEntry(messages'[1])
                /\ ~Busy' /\ calls' = <<>>]_vars

\* The log was cleared while the request was outstanding and the response
\* has been appended since: the log begins with an assistant entry.
C20_Witness ==
    /\ mounted = "AIAgentFrontend" /\ ~Busy /\ calls = <<>>
    /\ Len(messages) = 1 /\ IsAssistantEntry(messages[1])

\* ------------------------------------------------------------------------
\* Submissions, over tickets that JSON.stringify has to escape
\* ------------------------------------------------------------------------

\* What the user types: nothing, white space only, a ticket with white space
\* around it, one with a quote and a line feed, and a backslash.
TicketInputs ==
    {<<>>, <<" ">>, <<" ", "a", " ">>, <<"a", "\"", "\n", "b">>, <<"\\">>}

\* Submissions of these tickets, each exchange ending without a response.
TicketsNext ==
    \/ \E v \in TicketInputs : SetInput(v)
    \/ \E t \in Readings(now) : SendMessage(t)
    \/ \E i \in 1..Len(calls), t \in Readings(now) : FetchReject(i, t)
    \/ \E v \in TicketInputs : AppSetInput(v)
    \/ HandleSend
    \/ \E i \in 1..Len(calls) : PostReject(i)

SpecTickets == Init /\ [][TicketsNext]_vars

\* The character an escape of a JSON string stands for, given the character
\* after the backslash.
UnescapeChar(c) ==
    CASE c = "n" -> "\n"
      [] c = "r" -> "\r"
      [] c = "t" -> "\t"
      [] c = "f" -> "\f"
      [] OTHER -> c

\* The text of the JSON string body s from index i on, its escapes resolved.
RECURSIVE UnescapeFrom(_, _)
UnescapeFrom(s, i) ==
    LET j == FirstOf({k \in i..Len(s) : s[k] = "\\"})
    IN  IF j = 0 THEN SubSeq(s, i, Len(s))
        ELSE SubSeq(s, i, j - 1) \o <<UnescapeChar(s[j + 1])>> \o UnescapeFrom(s, j + 2)

\* '{"ticket":"'
TicketOpen == <<"{", "\"", "t", "i", "c", "k", "e", "t", "\"", ":", "\"">>

\* '"}'
TicketClose == <<"\"", "}">>

\* The ticket the backend reads from the request body { "ticket": ... }, and
\* undefined when the body is no such object.
TicketOf(body) ==
    IF /\ Len(body) >= Len(TicketOpen) + Len(TicketClose)
       /\ IsPrefix(TicketOpen, body)
       /\ IsSuffix(TicketClose, body)
    THEN UnescapeFrom(SubSeq(body, Len(TicketOpen) + 1, Len(body) - Len(TicketClose)), 1)
    ELSE Undefined

\* C21: the step of an accepted submit appends a user entry whose content is
\* the input as it stands, untrimmed, issues one request whose body holds
\* that same text as ticket, and empties the input field; no later step
\* changes the request of an outstanding call, whatever becomes of the
\* input field.
C21_TicketIsUserEntry ==
    [][/\ AcceptedSubmit
             => /\ Len(messages') = Len(messages) + 1
                /\ IsUserEntry(Last(messages'))
                /\ Last(messages').content = input
                /\ Len(calls') = Len(calls) + 1
                /\ TicketOf(Last(calls').request.body) = Last(messages').content
                /\ input' = <<>>
       /\ Len(calls') = Len(calls)
             => \A i \in 1..Len(calls) : calls'[i].request = calls[i].request]_vars

\* The ticket with white space around it has been submitted: it is the
\* content of the last entry and the ticket of the outstanding request, and
\* the input field, emptied by the submission, has been typed into again.
C21_Witness ==
    /\ Busy /\ Len(calls) = 1
    /\ Last(messages).content = <<" ", "a", " ">>
    /\ TicketOf(calls[1].request.body) = <<" ", "a", " ">>
    /\ input = <<"\\">>

====
